---- MODULE Spec2Model ----
(***************************************************************************)
(* ironcompress: the compression gateway of rust/src (compress.rs, ffi.rs, *)
(* error.rs) as a state machine.  One call of an entry point of ffi.rs is  *)
(* a run of steps (null check, algorithm resolution, adapter, report),     *)
(* with the caller's output region and *out_len as memory.                 *)
(*                                                                         *)
(* The codec crates (lz4_flex, snap, flate2, zstd, brotli, xz2, bzip2,     *)
(* lzf) are not part of the repository.  Each is modelled at its call site *)
(* by the contract of the function called there: a lossless framing of the *)
(* input (a header that names the codec, the level and the length, then    *)
(* the payload; run-length pairs for lzf), and the way that function       *)
(* reports an output region that is too small.                             *)
(***************************************************************************)
EXTENDS Integers, Sequences, FiniteSets, TLC

VARIABLES
    pc,        \* position of the call in progress
    op,        \* what runs: "none", "ping", "compress", "decompress", "estimate", "clamp"
    algo,      \* the u8 algorithm tag passed in
    level,     \* the i32 level passed in
    in_null,   \* in_ptr.is_null()
    out_null,  \* out_ptr.is_null()
    len_null,  \* out_len.is_null()
    input,     \* the in_len bytes at in_ptr (none behind a null pointer)
    in_len,    \* the in_len argument (its limbs, in a call of the estimate at full width)
    out_cap,   \* capacity of the output region
    out,       \* the memory at out_ptr: the out_cap bytes of the region, then GuardLen more
    out_len,   \* the usize at *out_len (Unwritten until stored)
    resolved,  \* compression_algo after CompressionAlgo::try_from
    result,    \* Result<usize, CompressError> of the adapter
    total,     \* read_to_buffer's counter
    reads,     \* number of reader.read calls made by read_to_buffer
    ret,       \* value returned by the entry point (its limbs, likewise)
    faulted,   \* a panic was raised during the call
    norm,      \* clamp_level applied once and twice
    link       \* how this call was derived from the previous one

vars == <<pc, op, algo, level, in_null, out_null, len_null, input, in_len, out_cap,
          out, out_len, resolved, result, total, reads, ret, faulted, norm, link>>

----------------------------------------------------------------------------
(* Bounds of the model *)

\* longest input byte sequence handed to an entry point by a fresh call
MaxLen == 3
\* largest output capacity chosen by a fresh call
MaxCap == 4
\* compress_native / decompress_native are called with tags 0..MaxTag and 255
MaxTag == 10
\* clamp_level is applied to -MaxLevel..MaxLevel and to the i32 extremes
MaxLevel == 24
\* bytes of the caller's memory that follow the output region
GuardLen == 1

----------------------------------------------------------------------------
(* error.rs: return codes *)

SUCCESS == 0
BUFFER_TOO_SMALL == -1
ALGO_NOT_FOUND == -2
INVALID_ARGUMENT == -3
INTERNAL_ERROR == -50
PANIC_CAUGHT == -99

I32_MAX == 2147483647
I32_MIN == (-I32_MAX) - 1

\* content of memory that no call has written
Unwritten == -1
\* initial content of every byte of the caller's output region
Poison == 170

Bytes == {0, 1}
Algos == {"Lz4", "Snappy", "Zstd", "Gzip", "Brotli", "Lzma2", "Bzip2", "Lzf", "Deflate"}
NoAlgo == "none"

\* levels handed to the entry points by a fresh call
GatewayLevels == {-1, 4, 23}

RECURSIVE SeqsUpTo(_)
SeqsUpTo(n) ==
    IF n = 0 THEN {<<>>}
    ELSE LET shorter == SeqsUpTo(n - 1)
         IN shorter \cup {Append(s, b) : s \in {t \in shorter : Len(t) = n - 1}, b \in Bytes}

Inputs == SeqsUpTo(MaxLen)

Min(a, b) == IF a <= b THEN a ELSE b

Prefix(s, k) == SubSeq(s, 1, k)

\* region with its first Len(s) bytes replaced by s (Len(s) <= Len(region))
Overwrite(region, s) ==
    [i \in 1..Len(region) |-> IF i <= Len(s) THEN s[i] ELSE region[i]]

\* region with s stored at offset at (0-based), at + Len(s) <= Len(region)
OverwriteAt(region, at, s) ==
    [i \in 1..Len(region) |->
        IF i > at /\ i <= at + Len(s) THEN s[i - at] ELSE region[i]]

Fresh(cap) == [i \in 1..cap |-> Poison]

\* mutant of OutputSlice: the slice made one byte longer than the capacity
OutputSliceOneMore(mem, cap) == Prefix(mem, cap + 1)

\* std::slice::from_raw_parts_mut(out_ptr, out_cap)
OutputSlice(mem, cap) == Prefix(mem, cap)

----------------------------------------------------------------------------
(* error.rs: CompressError *)

ErrBufferTooSmall(needed) == [kind |-> "BufferTooSmall", needed |-> needed]
ErrAlgoNotFound == [kind |-> "AlgoNotFound", needed |-> 0]
ErrInternal == [kind |-> "Internal", needed |-> 0]

\* mutant of to_code: Internal reported with the code of InvalidArgument
ToCodeInternalAsArgument(e) ==
    CASE e.kind = "BufferTooSmall" -> BUFFER_TOO_SMALL
      [] e.kind = "AlgoNotFound" -> ALGO_NOT_FOUND
      [] e.kind = "InvalidArgument" -> INVALID_ARGUMENT
      [] e.kind = "Internal" -> INVALID_ARGUMENT

to_code(e) ==
    CASE e.kind = "BufferTooSmall" -> BUFFER_TOO_SMALL
      [] e.kind = "AlgoNotFound" -> ALGO_NOT_FOUND
      [] e.kind = "InvalidArgument" -> INVALID_ARGUMENT
      [] e.kind = "Internal" -> INTERNAL_ERROR

needed_size(e) ==
    IF e.kind = "BufferTooSmall"
    THEN [some |-> TRUE, val |-> e.needed]
    ELSE [some |-> FALSE, val |-> 0]

\* Result<usize, CompressError> together with the output region as the adapter left it
Ok(n, region) == [ok |-> TRUE, n |-> n, err |-> ErrInternal, out |-> region]
Err(e, region) == [ok |-> FALSE, n |-> 0, err |-> e, out |-> region]
NoResult == [ok |-> FALSE, n |-> 0, err |-> ErrInternal, out |-> <<>>]

----------------------------------------------------------------------------
(* compress.rs: registry, level normalisation, size estimate *)

\* mutant of TryFrom: the table written zero-based
TryFromZeroBased(value) ==
    CASE value = 0 -> [ok |-> TRUE, algo |-> "Lz4"]
      [] value = 1 -> [ok |-> TRUE, algo |-> "Snappy"]
      [] value = 2 -> [ok |-> TRUE, algo |-> "Zstd"]
      [] value = 3 -> [ok |-> TRUE, algo |-> "Gzip"]
      [] value = 4 -> [ok |-> TRUE, algo |-> "Brotli"]
      [] value = 5 -> [ok |-> TRUE, algo |-> "Lzma2"]
      [] value = 6 -> [ok |-> TRUE, algo |-> "Bzip2"]
      [] value = 7 -> [ok |-> TRUE, algo |-> "Lzf"]
      [] value = 8 -> [ok |-> TRUE, algo |-> "Deflate"]
      [] OTHER -> [ok |-> FALSE, algo |-> NoAlgo]

TryFrom(value) ==
    CASE value = 1 -> [ok |-> TRUE, algo |-> "Lz4"]
      [] value = 2 -> [ok |-> TRUE, algo |-> "Snappy"]
      [] value = 3 -> [ok |-> TRUE, algo |-> "Zstd"]
      [] value = 4 -> [ok |-> TRUE, algo |-> "Gzip"]
      [] value = 5 -> [ok |-> TRUE, algo |-> "Brotli"]
      [] value = 6 -> [ok |-> TRUE, algo |-> "Lzma2"]
      [] value = 7 -> [ok |-> TRUE, algo |-> "Bzip2"]
      [] value = 8 -> [ok |-> TRUE, algo |-> "Lzf"]
      [] value = 9 -> [ok |-> TRUE, algo |-> "Deflate"]
      [] OTHER -> [ok |-> FALSE, algo |-> NoAlgo]

\* #[repr(u8)] discriminant of a CompressionAlgo
Discriminant(a) ==
    CASE a = "Lz4" -> 1
      [] a = "Snappy" -> 2
      [] a = "Zstd" -> 3
      [] a = "Gzip" -> 4
      [] a = "Brotli" -> 5
      [] a = "Lzma2" -> 6
      [] a = "Bzip2" -> 7
      [] a = "Lzf" -> 8
      [] a = "Deflate" -> 9

\* i32::clamp
Clamp(x, lo, hi) == IF x < lo THEN lo ELSE IF x > hi THEN hi ELSE x

\* mutant of RangedLevel: the clamped level handed on zero-based
RangedLevelZeroBased(lvl, default, lo, hi) ==
    IF lvl <= 0 THEN default ELSE Clamp(lvl, lo, hi) - 1

\* one ranged arm of clamp_level: the default for level <= 0, else level.clamp(lo, hi)
RangedLevel(lvl, default, lo, hi) == IF lvl <= 0 THEN default ELSE Clamp(lvl, lo, hi)

\* mutant of clamp_level: the Brotli arm with the range of the Gzip arm
ClampLevelBrotliAsGzip(a, lvl) ==
    CASE a = "Lz4" -> 0
      [] a = "Snappy" -> 0
      [] a = "Zstd" -> RangedLevel(lvl, 3, 1, 22)
      [] a = "Gzip" -> RangedLevel(lvl, 6, 1, 9)
      [] a = "Brotli" -> RangedLevel(lvl, 6, 1, 9)
      [] a = "Lzma2" -> RangedLevel(lvl, 6, 1, 9)
      [] a = "Bzip2" -> RangedLevel(lvl, 6, 1, 9)
      [] a = "Lzf" -> 0
      [] a = "Deflate" -> RangedLevel(lvl, 6, 1, 9)

clamp_level(a, lvl) ==
    CASE a = "Lz4" -> 0
      [] a = "Snappy" -> 0
      [] a = "Zstd" -> RangedLevel(lvl, 3, 1, 22)
      [] a = "Gzip" -> RangedLevel(lvl, 6, 1, 9)
      [] a = "Brotli" -> RangedLevel(lvl, 6, 1, 11)
      [] a = "Lzma2" -> RangedLevel(lvl, 6, 1, 9)
      [] a = "Bzip2" -> RangedLevel(lvl, 6, 1, 9)
      [] a = "Lzf" -> 0
      [] a = "Deflate" -> RangedLevel(lvl, 6, 1, 9)

\* lz4_flex::block::get_maximum_output_size: 16 + 4 + (len as f64 * 1.1) as usize
get_maximum_output_size(len) == 16 + 4 + ((len * 11) \div 10)

\* snap::raw::max_compress_len, for an input and a bound within u32::MAX
max_compress_len(len) == 32 + len + (len \div 6)

\* mutant of estimate_max_output_size: the closed forms without their constant term
EstimateWithoutOverhead(a, lvl, input_len) ==
    CASE a = "Lz4" -> get_maximum_output_size(input_len)
      [] a = "Snappy" -> max_compress_len(input_len)
      [] a \in {"Gzip", "Deflate"} -> input_len + (input_len \div 8)
      [] OTHER -> input_len * 2

estimate_max_output_size(a, lvl, input_len) ==
    CASE a = "Lz4" -> get_maximum_output_size(input_len)
      [] a = "Snappy" -> max_compress_len(input_len)
      [] a \in {"Gzip", "Deflate"} -> input_len + (input_len \div 8) + 32
      [] OTHER -> (input_len * 2) + 64

----------------------------------------------------------------------------
(* usize on a 64-bit target: four 16-bit limbs, least significant first *)

LimbBase == 65536
LimbCount == 4

\* the usize of a small number
Usize(n) == <<n % LimbBase, n \div LimbBase, 0, 0>>

\* the number a usize below 2^31 stands for
AsInt(x) == x[1] + (LimbBase * x[2])

USIZE_MAX == <<65535, 65535, 65535, 65535>>
U32_MAX == <<65535, 65535, 0, 0>>

\* x * m + c from limb i on: the limbs, and the carry out of the last one
RECURSIVE MulAdd(_, _, _, _)
MulAdd(x, m, c, i) ==
    IF i > Len(x) THEN [val |-> <<>>, carry |-> c]
    ELSE LET t == (x[i] * m) + c
             rest == MulAdd(x, m, t \div LimbBase, i + 1)
         IN [val |-> <<t % LimbBase>> \o rest.val, carry |-> rest.carry]

\* x + y from limb i on, with carry c
RECURSIVE AddLimbs(_, _, _, _)
AddLimbs(x, y, c, i) ==
    IF i > Len(x) THEN [val |-> <<>>, carry |-> c]
    ELSE LET t == x[i] + y[i] + c
             rest == AddLimbs(x, y, t \div LimbBase, i + 1)
         IN [val |-> <<t % LimbBase>> \o rest.val, carry |-> rest.carry]

\* x / d, from limb i down, with the remainder r of the limbs above
RECURSIVE DivLimbs(_, _, _, _)
DivLimbs(x, d, r, i) ==
    IF i = 0 THEN <<>>
    ELSE LET t == (r * LimbBase) + x[i]
         IN DivLimbs(x, d, t % d, i - 1) \o <<t \div d>>

DivSmall(x, d) == DivLimbs(x, d, 0, Len(x))

\* x < y, compared from limb i down
RECURSIVE LessFrom(_, _, _)
LessFrom(x, y, i) ==
    IF i = 0 THEN FALSE
    ELSE IF x[i] # y[i] THEN x[i] < y[i] ELSE LessFrom(x, y, i - 1)

LessUsize(x, y) == LessFrom(x, y, LimbCount)

\* a usize result: the value modulo 2^64, and whether the exact value left the range
Wrapped(r) == [val |-> r.val, overflow |-> r.carry # 0]

\* lz4_flex::block::get_maximum_output_size at full width: the cast of the f64
\* product saturates at usize::MAX, the additions are usize additions
get_maximum_output_size_usize(x) ==
    LET p == MulAdd(x, 11, 0, 1)
        q == DivSmall(p.val \o <<p.carry>>, 10)
        sat == IF q[LimbCount + 1] # 0 THEN USIZE_MAX ELSE SubSeq(q, 1, LimbCount)
    IN Wrapped(MulAdd(sat, 1, 16 + 4, 1))

\* snap::raw::max_compress_len at full width: 0 beyond u32::MAX
max_compress_len_usize(x) ==
    LET s == AddLimbs(x, DivSmall(x, 6), 32, 1)
    IN IF LessUsize(U32_MAX, x) \/ s.carry # 0 \/ LessUsize(U32_MAX, s.val)
       THEN [val |-> Usize(0), overflow |-> FALSE]
       ELSE [val |-> s.val, overflow |-> FALSE]

\* estimate_max_output_size at full width
estimate_max_output_size_usize(a, lvl, input_len) ==
    CASE a = "Lz4" -> get_maximum_output_size_usize(input_len)
      [] a = "Snappy" -> max_compress_len_usize(input_len)
      [] a \in {"Gzip", "Deflate"} ->
           Wrapped(AddLimbs(input_len, DivSmall(input_len, 8), 32, 1))
      [] OTHER -> Wrapped(MulAdd(input_len, 2, 64, 1))

----------------------------------------------------------------------------
(* The codec crates, by the contract of the functions compress.rs calls *)

\* first byte of a codec's frame: names the codec
Magic(a) == 240 + Discriminant(a)

\* level as u32: a negative level wraps to a value above i32::MAX, held here as I32_MAX
AsU32(lvl) == IF lvl >= 0 THEN lvl ELSE I32_MAX

\* what an encoder produces for data: header (codec, level, length), then the payload
Encode(a, lvl, data) == <<Magic(a), lvl, Len(data)>> \o data

\* what a decoder makes of a stream: the payload of a well-formed frame of its codec;
\* of a frame cut short, the payload that is there and then an error; else an error
Decode(a, s) ==
    IF Len(s) >= 3 /\ s[1] = Magic(a) /\ s[3] = Len(s) - 3
    THEN [ok |-> TRUE, data |-> SubSeq(s, 4, Len(s))]
    ELSE IF Len(s) >= 3 /\ s[1] = Magic(a) /\ s[3] > Len(s) - 3
         THEN [ok |-> FALSE, data |-> SubSeq(s, 4, Len(s))]
         ELSE [ok |-> FALSE, data |-> <<>>]

RECURSIVE RunLength(_)
RunLength(d) ==
    IF Len(d) <= 1 THEN Len(d)
    ELSE IF d[2] = d[1] THEN 1 + RunLength(Tail(d)) ELSE 1

\* lzf token stream of data: one (count, byte) pair per run
RECURSIVE RunPairs(_)
RunPairs(d) ==
    IF d = <<>> THEN <<>>
    ELSE LET k == RunLength(d)
         IN <<k, d[1]>> \o RunPairs(SubSeq(d, k + 1, Len(d)))

RECURSIVE ExpandedLen(_)
ExpandedLen(p) == IF Len(p) < 2 THEN 0 ELSE p[1] + ExpandedLen(SubSeq(p, 3, Len(p)))

RECURSIVE Expand(_)
Expand(p) ==
    IF Len(p) < 2 THEN <<>>
    ELSE [i \in 1..p[1] |-> p[2]] \o Expand(SubSeq(p, 3, Len(p)))

\* lzf::compress: the output buffer has the input's length; no shorter form, no result
lzf_compress(data) ==
    IF Len(data) < 2 THEN [kind |-> "NoCompressionPossible", data |-> <<>>]
    ELSE LET c == RunPairs(data)
         IN IF Len(c) < Len(data)
            THEN [kind |-> "Ok", data |-> c]
            ELSE [kind |-> "NoCompressionPossible", data |-> <<>>]

\* lzf::decompress(data, out_len_should)
lzf_decompress(p, out_len_should) ==
    IF Len(p) = 0 \/ Len(p) % 2 = 1 \/ (\E i \in 1..Len(p) : i % 2 = 1 /\ p[i] = 0)
    THEN [kind |-> "DataCorrupted", data |-> <<>>]
    ELSE IF ExpandedLen(p) > out_len_should
         THEN [kind |-> "BufferTooSmall", data |-> <<>>]
         ELSE [kind |-> "Ok", data |-> Expand(p)]

\* mutant of CursorWrite: the length of the region returned for the cursor's position
CursorWriteCapacity(output, stream) ==
    IF Len(stream) <= Len(output)
    THEN Ok(Len(output), Overwrite(output, stream))
    ELSE Err(ErrInternal, Overwrite(output, Prefix(stream, Len(output))))

\* write_all + finish on a Cursor over the output region: WriteZero once it is full
CursorWrite(output, stream) ==
    IF Len(stream) <= Len(output)
    THEN Ok(Len(stream), Overwrite(output, stream))
    ELSE Err(ErrInternal, Overwrite(output, Prefix(stream, Len(output))))

----------------------------------------------------------------------------
(* compress.rs: the compress adapters *)

\* lz4_flex::block::compress_into refuses an output shorter than
\* get_maximum_output_size(input.len()); the adapter maps that to BufferTooSmall
compress_lz4(inp, output) ==
    IF Len(output) < get_maximum_output_size(Len(inp))
    THEN Err(ErrBufferTooSmall(get_maximum_output_size(Len(inp))), output)
    ELSE Ok(Len(Encode("Lz4", 0, inp)), Overwrite(output, Encode("Lz4", 0, inp)))

compress_snappy(inp, output) ==
    LET max == max_compress_len(Len(inp))
    IN IF Len(output) < max
       THEN Err(ErrBufferTooSmall(max), output)
       ELSE Ok(Len(Encode("Snappy", 0, inp)), Overwrite(output, Encode("Snappy", 0, inp)))

compress_gzip(inp, output, lvl) == CursorWrite(output, Encode("Gzip", AsU32(lvl), inp))

compress_deflate(inp, output, lvl) == CursorWrite(output, Encode("Deflate", AsU32(lvl), inp))

LzfStore(output, flag, payload) ==
    LET tot == 1 + Len(payload)
    IN IF tot > Len(output)
       THEN Err(ErrBufferTooSmall(tot), output)
       ELSE Ok(tot, Overwrite(output, <<flag>> \o payload))

\* mutant of compress_lzf: the two prefix bytes exchanged
CompressLzfSwappedPrefix(inp, output) ==
    LET r == lzf_compress(inp)
    IN CASE r.kind = "Ok" -> LzfStore(output, 0, r.data)
         [] r.kind = "NoCompressionPossible" -> LzfStore(output, 1, inp)
         [] OTHER -> Err(ErrInternal, output)

compress_lzf(inp, output) ==
    LET r == lzf_compress(inp)
    IN CASE r.kind = "Ok" -> LzfStore(output, 1, r.data)
         [] r.kind = "NoCompressionPossible" -> LzfStore(output, 0, inp)
         [] OTHER -> Err(ErrInternal, output)

compress_lzma2(inp, output, lvl) == CursorWrite(output, Encode("Lzma2", AsU32(lvl), inp))

compress_bzip2(inp, output, lvl) == CursorWrite(output, Encode("Bzip2", AsU32(lvl), inp))

\* zstd::bulk::Compressor::compress_to_buffer: an io::Error when the frame does not fit
compress_zstd(inp, output, lvl) == CursorWrite(output, Encode("Zstd", lvl, inp))

compress_brotli(inp, output, lvl) == CursorWrite(output, Encode("Brotli", lvl, inp))

compress(a, lvl, inp, output) ==
    LET l == clamp_level(a, lvl)
    IN CASE a = "Lz4" -> compress_lz4(inp, output)
         [] a = "Snappy" -> compress_snappy(inp, output)
         [] a = "Gzip" -> compress_gzip(inp, output, l)
         [] a = "Deflate" -> compress_deflate(inp, output, l)
         [] a = "Zstd" -> compress_zstd(inp, output, l)
         [] a = "Brotli" -> compress_brotli(inp, output, l)
         [] a = "Lzma2" -> compress_lzma2(inp, output, l)
         [] a = "Bzip2" -> compress_bzip2(inp, output, l)
         [] a = "Lzf" -> compress_lzf(inp, output)

----------------------------------------------------------------------------
(* compress.rs: the decompress adapters *)

\* a decoder that writes into the region directly and fails once the region is full
DecodeInto(a, inp, output) ==
    LET d == Decode(a, inp)
    IN IF ~d.ok THEN Err(ErrInternal, output)
       ELSE IF Len(d.data) > Len(output)
            THEN Err(ErrInternal, Overwrite(output, Prefix(d.data, Len(output))))
            ELSE Ok(Len(d.data), Overwrite(output, d.data))

decompress_lz4(inp, output) == DecodeInto("Lz4", inp, output)

\* snap checks the decompressed length of the header against the region first
decompress_snappy(inp, output) ==
    LET d == Decode("Snappy", inp)
    IN IF ~d.ok \/ Len(d.data) > Len(output)
       THEN Err(ErrInternal, output)
       ELSE Ok(Len(d.data), Overwrite(output, d.data))

decompress_zstd(inp, output) == DecodeInto("Zstd", inp, output)

decompress_brotli(inp, output) == DecodeInto("Brotli", inp, output)

decompress_lzf(inp, output) ==
    IF Len(inp) = 0 THEN Err(ErrInternal, output)
    ELSE LET flag == inp[1]
             payload == Tail(inp)
         IN CASE flag = 0 ->
                   IF Len(payload) > Len(output)
                   THEN Err(ErrBufferTooSmall(Len(payload)), output)
                   ELSE Ok(Len(payload), Overwrite(output, payload))
              [] flag = 1 ->
                   LET r == lzf_decompress(payload, Len(output))
                   IN IF r.kind # "Ok" THEN Err(ErrInternal, output)
                      ELSE IF Len(r.data) > Len(output)
                           THEN Err(ErrBufferTooSmall(Len(r.data)), output)
                           ELSE Ok(Len(r.data), Overwrite(output, r.data))
              [] OTHER -> Err(ErrInternal, output)

\* the adapters that hand a streaming decoder to read_to_buffer
Streaming == {"Gzip", "Deflate", "Lzma2", "Bzip2"}

\* decompress for the adapters that do not stream
decompress(a, inp, output) ==
    CASE a = "Lz4" -> decompress_lz4(inp, output)
      [] a = "Snappy" -> decompress_snappy(inp, output)
      [] a = "Zstd" -> decompress_zstd(inp, output)
      [] a = "Brotli" -> decompress_brotli(inp, output)
      [] a = "Lzf" -> decompress_lzf(inp, output)

----------------------------------------------------------------------------
(* compress.rs: read_to_buffer, one reader.read per step *)

\* mutant of ProbeNeeded: the hint without its + 1
ProbeNeededTotal(tot) == tot

\* the needed of the probe arm: Err(BufferTooSmall { needed: total + 1 })
ProbeNeeded(tot) == tot + 1

\* mutant of ReadProbe: a full region taken for the end of the stream, no probe read
ReadProbeSkipped(d, tot, region) == Ok(tot, region)

\* total >= output.len(): one 1-byte probe read decides
ReadProbe(d, tot, region) ==
    IF Len(d.data) > tot THEN Err(ErrBufferTooSmall(ProbeNeeded(tot)), region)
    ELSE IF d.ok THEN Ok(tot, region)
         ELSE Err(ErrInternal, region)

\* reader.read(&mut output[total..]) returned Ok(0) or Err(e)
ReadEnd(d, tot, region) ==
    IF ~d.ok THEN Err(ErrInternal, region) ELSE Ok(tot, region)

----------------------------------------------------------------------------
(* The calls *)

Tags == (0..MaxTag) \cup {255}
U8 == 0..255
Levels == ((-MaxLevel)..MaxLevel) \cup {I32_MIN, I32_MAX}
BodySteps == {"entry", "resolve", "adapter", "read", "log"}

NoLink == [kind |-> "fresh", plain |-> <<>>, src |-> NoAlgo, hint |-> -1, est |-> -1]

Init ==
    /\ pc = "idle"
    /\ op = "none"
    /\ algo = 0
    /\ level = 0
    /\ in_null = FALSE
    /\ out_null = FALSE
    /\ len_null = FALSE
    /\ input = <<>>
    /\ in_len = 0
    /\ out_cap = 0
    /\ out = Fresh(GuardLen)
    /\ out_len = Unwritten
    /\ resolved = NoAlgo
    /\ result = NoResult
    /\ total = 0
    /\ reads = 0
    /\ ret = 0
    /\ faulted = FALSE
    /\ norm = <<0, 0>>
    /\ link = NoLink

\* the state in which an entry point starts to run
Begin(o, first, tag, lvl, inn, outn, lenn, data, n, cap, lk) ==
    /\ pc' = first
    /\ op' = o
    /\ algo' = tag
    /\ level' = lvl
    /\ in_null' = inn
    /\ out_null' = outn
    /\ len_null' = lenn
    /\ input' = IF inn THEN <<>> ELSE data
    /\ in_len' = n
    /\ out_cap' = cap
    /\ out' = IF outn THEN <<>> ELSE Fresh(cap + GuardLen)
    /\ out_len' = Unwritten
    /\ resolved' = NoAlgo
    /\ result' = NoResult
    /\ total' = 0
    /\ reads' = 0
    /\ ret' = 0
    /\ faulted' = FALSE
    /\ norm' = <<0, 0>>
    /\ link' = lk

CallCompress ==
    /\ pc = "idle"
    /\ \E tag \in Tags, lvl \in GatewayLevels, inn \in BOOLEAN, outn \in BOOLEAN,
          lenn \in BOOLEAN, data \in Inputs, cap \in 0..MaxCap :
          Begin("compress", "entry", tag, lvl, inn, outn, lenn, data, Len(data), cap, NoLink)

CallDecompress ==
    /\ pc = "idle"
    /\ \E tag \in Tags, inn \in BOOLEAN, outn \in BOOLEAN,
          lenn \in BOOLEAN, data \in Inputs, cap \in 0..MaxCap :
          Begin("decompress", "entry", tag, 0, inn, outn, lenn, data, Len(data), cap, NoLink)

CallEstimate ==
    /\ pc = "idle"
    /\ \E tag \in U8, lvl \in GatewayLevels, n \in 0..MaxLen :
          Begin("estimate", "est_body", tag, lvl, FALSE, FALSE, FALSE, <<>>, n, 0, NoLink)

\* input lengths beyond the model's integers: 2^31, 2^32, 2^63 - 33, 2^63 - 32, 2^63
\* and usize::MAX
LargeLens ==
    {<<0, 32768, 0, 0>>, <<0, 0, 1, 0>>, <<65503, 65535, 65535, 32767>>,
     <<65504, 65535, 65535, 32767>>, <<0, 0, 0, 32768>>, USIZE_MAX}

\* the tags whose estimate is not the bound of a codec crate
ClosedFormTags == Tags \ {Discriminant("Lz4"), Discriminant("Snappy")}

\* estimate_max_output_size_native with an in_len no buffer of the model has; in_len
\* and the value returned are then held as limbs
CallEstimateLarge ==
    /\ pc = "idle"
    /\ \E tag \in ClosedFormTags, lvl \in GatewayLevels, n \in LargeLens :
          Begin("estimate", "est_body", tag, lvl, FALSE, FALSE, FALSE, <<>>, n, 0,
                [NoLink EXCEPT !.kind = "large"])

CallPing ==
    /\ pc = "idle"
    /\ Begin("ping", "ping_log", 0, 0, FALSE, FALSE, FALSE, <<>>, 0, 0, NoLink)

\* clamp_level(a, x) and clamp_level(a, clamp_level(a, x))
ClampCall ==
    /\ pc = "idle"
    /\ \E a \in Algos, x \in Levels :
          /\ pc' = "clamped"
          /\ op' = "clamp"
          /\ resolved' = a
          /\ level' = x
          /\ norm' = <<clamp_level(a, x), clamp_level(a, clamp_level(a, x))>>
    /\ UNCHANGED <<algo, in_null, out_null, len_null, input, in_len, out_cap, out,
                   out_len, result, total, reads, ret, faulted, link>>

\* mutant of NullCheck: the algorithm looked up before the pointers are checked
NullCheckAfterLookup ==
    /\ pc = "entry"
    /\ IF ~TryFrom(algo).ok
       THEN pc' = "returned" /\ ret' = to_code(ErrAlgoNotFound)
       ELSE IF in_null \/ out_null \/ len_null
            THEN pc' = "returned" /\ ret' = INVALID_ARGUMENT
            ELSE pc' = "resolve" /\ ret' = ret
    /\ UNCHANGED <<op, algo, level, in_null, out_null, len_null, input, in_len, out_cap,
                   out, out_len, resolved, result, total, reads, faulted, norm, link>>

\* compress_native_inner / decompress_native_inner: the null check
NullCheck ==
    /\ pc = "entry"
    /\ IF in_null \/ out_null \/ len_null
       THEN pc' = "returned" /\ ret' = INVALID_ARGUMENT
       ELSE pc' = "resolve" /\ ret' = ret
    /\ UNCHANGED <<op, algo, level, in_null, out_null, len_null, input, in_len, out_cap,
                   out, out_len, resolved, result, total, reads, faulted, norm, link>>

\* CompressionAlgo::try_from(algo), Err(e) => return e.to_code()
Resolve ==
    /\ pc = "resolve"
    /\ IF TryFrom(algo).ok
       THEN pc' = "adapter" /\ resolved' = TryFrom(algo).algo /\ ret' = ret
       ELSE pc' = "returned" /\ resolved' = resolved /\ ret' = to_code(ErrAlgoNotFound)
    /\ UNCHANGED <<op, algo, level, in_null, out_null, len_null, input, in_len, out_cap,
                   out, out_len, result, total, reads, faulted, norm, link>>

\* compress::compress(compression_algo, level, input, output)
RunCompress ==
    /\ pc = "adapter"
    /\ op = "compress"
    /\ result' = compress(resolved, level, input, OutputSlice(out, out_cap))
    /\ out' = Overwrite(out, result'.out)
    /\ pc' = "report"
    /\ UNCHANGED <<op, algo, level, in_null, out_null, len_null, input, in_len, out_cap,
                   out_len, resolved, total, reads, ret, faulted, norm, link>>

\* compress::decompress(compression_algo, input, output), the adapters that do not stream
RunDecompress ==
    /\ pc = "adapter"
    /\ op = "decompress"
    /\ resolved \notin Streaming
    /\ result' = decompress(resolved, input, OutputSlice(out, out_cap))
    /\ out' = Overwrite(out, result'.out)
    /\ pc' = "report"
    /\ UNCHANGED <<op, algo, level, in_null, out_null, len_null, input, in_len, out_cap,
                   out_len, resolved, total, reads, ret, faulted, norm, link>>

\* decompress_gzip / _deflate / _lzma2 / _bzip2: a decoder over input, then read_to_buffer
OpenReader ==
    /\ pc = "adapter"
    /\ op = "decompress"
    /\ resolved \in Streaming
    /\ pc' = "read"
    /\ total' = 0
    /\ reads' = 0
    /\ UNCHANGED <<op, algo, level, in_null, out_null, len_null, input, in_len, out_cap,
                   out, out_len, resolved, result, ret, faulted, norm, link>>

\* mutant of ReadStep: the loop without its Ok(0) arm, a read of 0 bytes adds 0
ReadStepNoEndArm ==
    /\ pc = "read"
    /\ reads' = reads + 1
    /\ LET d == Decode(resolved, input)
           output == OutputSlice(out, out_cap)
       IN IF total >= Len(output)
          THEN /\ result' = ReadProbe(d, total, output)
               /\ pc' = "report"
               /\ UNCHANGED <<out, total>>
          ELSE IF Len(d.data) = total
               THEN /\ result' = IF d.ok THEN result ELSE ReadEnd(d, total, output)
                    /\ pc' = IF d.ok THEN "read" ELSE "report"
                    /\ UNCHANGED <<out, total>>
               ELSE \E n \in 1..Min(Len(output) - total, Len(d.data) - total) :
                       /\ out' = OverwriteAt(out, total, SubSeq(d.data, total + 1, total + n))
                       /\ total' = total + n
                       /\ pc' = "read"
                       /\ result' = result
    /\ UNCHANGED <<op, algo, level, in_null, out_null, len_null, input, in_len, out_cap,
                   out_len, resolved, ret, faulted, norm, link>>

\* one iteration of the loop of read_to_buffer
ReadStep ==
    /\ pc = "read"
    /\ reads' = reads + 1
    /\ LET d == Decode(resolved, input)
           output == OutputSlice(out, out_cap)
       IN IF total >= Len(output)
          THEN /\ result' = ReadProbe(d, total, output)
               /\ pc' = "report"
               /\ UNCHANGED <<out, total>>
          ELSE IF Len(d.data) = total
               THEN /\ result' = ReadEnd(d, total, output)
                    /\ pc' = "report"
                    /\ UNCHANGED <<out, total>>
               ELSE \E n \in 1..Min(Len(output) - total, Len(d.data) - total) :
                       /\ out' = OverwriteAt(out, total, SubSeq(d.data, total + 1, total + n))
                       /\ total' = total + n
                       /\ pc' = "read"
                       /\ result' = result
    /\ UNCHANGED <<op, algo, level, in_null, out_null, len_null, input, in_len, out_cap,
                   out_len, resolved, ret, faulted, norm, link>>

\* the value stored to *out_len by the match on the adapter's result
Stored(r, old) ==
    IF r.ok THEN r.n
    ELSE IF needed_size(r.err).some THEN needed_size(r.err).val ELSE old

\* the code the match on the adapter's result evaluates to
Code(r) == IF r.ok THEN SUCCESS ELSE to_code(r.err)

\* Ok(n) => *out_len = n; Err(e) => *out_len = needed, if any
Report ==
    /\ pc = "report"
    /\ out_len' = Stored(result, out_len)
    /\ pc' = "log"
    /\ UNCHANGED <<op, algo, level, in_null, out_null, len_null, input, in_len, out_cap,
                   out, resolved, result, total, reads, ret, faulted, norm, link>>

\* info! / debug! / error!, then the code is returned through catch_unwind
Return ==
    /\ pc = "log"
    /\ ret' = Code(result)
    /\ pc' = "returned"
    /\ UNCHANGED <<op, algo, level, in_null, out_null, len_null, input, in_len, out_cap,
                   out, out_len, resolved, result, total, reads, faulted, norm, link>>

\* a panic inside the closure of compress_native / decompress_native:
\* catch_unwind(..).unwrap_or(error::PANIC_CAUGHT)
PanicInBody ==
    /\ pc \in BodySteps
    /\ faulted' = TRUE
    /\ ret' = PANIC_CAUGHT
    /\ pc' = "returned"
    /\ UNCHANGED <<op, algo, level, in_null, out_null, len_null, input, in_len, out_cap,
                   out, out_len, resolved, result, total, reads, norm, link>>

\* the closure of estimate_max_output_size_native; arithmetic that leaves the range
\* of usize wraps around when the build has overflow checks off
EstimateBody ==
    /\ pc = "est_body"
    /\ IF TryFrom(algo).ok
       THEN /\ resolved' = TryFrom(algo).algo
            /\ ret' = IF link.kind = "large"
                      THEN estimate_max_output_size_usize(TryFrom(algo).algo, level,
                                                          in_len).val
                      ELSE estimate_max_output_size(TryFrom(algo).algo, level, in_len)
            /\ pc' = "returned"
       ELSE /\ pc' = "est_fail"
            /\ UNCHANGED <<resolved, ret>>
    /\ UNCHANGED <<op, algo, level, in_null, out_null, len_null, input, in_len, out_cap,
                   out, out_len, result, total, reads, faulted, norm, link>>

\* a panic inside the closure: catch_unwind yields Err, the `_` arm is taken
PanicInEstimate ==
    /\ pc = "est_body"
    /\ faulted' = TRUE
    /\ pc' = "est_fail"
    /\ UNCHANGED <<op, algo, level, in_null, out_null, len_null, input, in_len, out_cap,
                   out, out_len, resolved, result, total, reads, ret, norm, link>>

\* arithmetic of estimate_max_output_size that leaves the range of usize panics when
\* the build has overflow checks on: catch_unwind yields Err, the `_` arm is taken
PanicInEstimateOverflow ==
    /\ pc = "est_body"
    /\ link.kind = "large"
    /\ TryFrom(algo).ok
    /\ estimate_max_output_size_usize(TryFrom(algo).algo, level, in_len).overflow
    /\ resolved' = TryFrom(algo).algo
    /\ faulted' = TRUE
    /\ pc' = "est_fail"
    /\ UNCHANGED <<op, algo, level, in_null, out_null, len_null, input, in_len, out_cap,
                   out, out_len, result, total, reads, ret, norm, link>>

\* the `_` arm: debug!, then 0
EstimateFail ==
    /\ pc = "est_fail"
    /\ ret' = 0
    /\ pc' = "returned"
    /\ UNCHANGED <<op, algo, level, in_null, out_null, len_null, input, in_len, out_cap,
                   out, out_len, resolved, result, total, reads, faulted, norm, link>>

\* a panic in the debug! of the `_` arm, which runs after catch_unwind has returned
PanicInEstimateLog ==
    /\ pc = "est_fail"
    /\ faulted' = TRUE
    /\ pc' = "escaped"
    /\ UNCHANGED <<op, algo, level, in_null, out_null, len_null, input, in_len, out_cap,
                   out, out_len, resolved, result, total, reads, ret, norm, link>>

\* native_ping: trace!, then catch_unwind(|| 1).unwrap_or(PANIC_CAUGHT)
Ping ==
    /\ pc = "ping_log"
    /\ ret' = 1
    /\ pc' = "returned"
    /\ UNCHANGED <<op, algo, level, in_null, out_null, len_null, input, in_len, out_cap,
                   out, out_len, resolved, result, total, reads, faulted, norm, link>>

\* a panic in the trace! of native_ping, which runs before catch_unwind is entered
PanicInPingLog ==
    /\ pc = "ping_log"
    /\ faulted' = TRUE
    /\ pc' = "escaped"
    /\ UNCHANGED <<op, algo, level, in_null, out_null, len_null, input, in_len, out_cap,
                   out, out_len, resolved, result, total, reads, ret, norm, link>>

----------------------------------------------------------------------------
(* What a caller does with a returned call *)

\* decompress exactly the bytes a successful compress wrote
DecompressWritten ==
    /\ pc = "returned"
    /\ op = "compress"
    /\ ret = SUCCESS
    /\ \E tag \in 1..9, cap \in 0..MaxCap :
          Begin("decompress", "entry", tag, 0, FALSE, FALSE, FALSE,
                Prefix(out, out_len), out_len, cap,
                [kind |-> "roundtrip", plain |-> input, src |-> resolved,
                 hint |-> -1, est |-> -1])

\* repeat the call with an output region of the capacity *out_len asks for
Retry ==
    /\ pc = "returned"
    /\ op \in {"compress", "decompress"}
    /\ ret = BUFFER_TOO_SMALL
    /\ Begin(op, "entry", algo, level, FALSE, FALSE, FALSE, input, in_len, out_len,
             [link EXCEPT !.kind = "retry", !.hint = out_len])

\* compress into a region of exactly the estimated capacity
CompressAtEstimate ==
    /\ pc = "returned"
    /\ op = "estimate"
    /\ resolved # NoAlgo
    /\ link.kind # "large"
    /\ \E data \in Inputs :
          /\ Len(data) = in_len
          /\ Begin("compress", "entry", algo, level, FALSE, FALSE, FALSE, data, in_len, ret,
                   [kind |-> "estimated", plain |-> <<>>, src |-> NoAlgo,
                    hint |-> -1, est |-> ret])

\* the alterations of one byte of a stream: position i holds one more or one less
Corruptions(s) ==
    {[s EXCEPT ![i] = (s[i] + d) % 256] : i \in 1..Len(s), d \in {1, 255}}

\* a stream cut short by its last byte
Truncations(s) == IF s = <<>> THEN {} ELSE {Prefix(s, Len(s) - 1)}

\* the damaged forms of a stream of algorithm a.  How a codec crate checks the
\* integrity of its own format is not part of the repository: a byte is altered only
\* in streams of the LZF adapter, whose framing is that of compress.rs
Damaged(a, s) == Truncations(s) \cup (IF a = "Lzf" THEN Corruptions(s) ELSE {})

\* decompress, by the same algorithm, the bytes a successful compress wrote, damaged
DecompressCorrupted ==
    /\ pc = "returned"
    /\ op = "compress"
    /\ ret = SUCCESS
    /\ \E bad \in Damaged(resolved, Prefix(out, out_len)), cap \in 0..MaxCap :
          Begin("decompress", "entry", algo, 0, FALSE, FALSE, FALSE, bad, Len(bad), cap,
                [kind |-> "corrupted", plain |-> input, src |-> NoAlgo,
                 hint |-> -1, est |-> -1])

Done ==
    /\ pc \in {"returned", "clamped"}
    /\ Begin("none", "idle", 0, 0, FALSE, FALSE, FALSE, <<>>, 0, 0, NoLink)

Next ==
    \/ CallCompress
    \/ CallDecompress
    \/ CallEstimate
    \/ CallEstimateLarge
    \/ CallPing
    \/ ClampCall
    \/ NullCheck
    \/ Resolve
    \/ RunCompress
    \/ RunDecompress
    \/ OpenReader
    \/ ReadStep
    \/ Report
    \/ Return
    \/ PanicInBody
    \/ EstimateBody
    \/ PanicInEstimate
    \/ PanicInEstimateOverflow
    \/ EstimateFail
    \/ PanicInEstimateLog
    \/ Ping
    \/ PanicInPingLog
    \/ DecompressWritten
    \/ DecompressCorrupted
    \/ Retry
    \/ CompressAtEstimate
    \/ Done

Spec == Init /\ [][Next]_vars

----------------------------------------------------------------------------
(* Properties *)

AnyNull == in_null \/ out_null \/ len_null
Gateway == op \in {"compress", "decompress"}

\* bytes compress produces for inp when the output region is large enough
CompressedSize(a, lvl, inp) ==
    compress(a, lvl, inp, Fresh(estimate_max_output_size(a, lvl, Len(inp)))).n

\* C1: a call of compress_native or decompress_native that is passed a null in_ptr,
\* out_ptr or out_len returns InvalidArgument whatever the algorithm tag is, known or
\* unknown, and has not resolved the algorithm.
C1_NullBeforeAlgo ==
    (pc = "returned" /\ Gateway /\ AnyNull /\ ~faulted)
        => (ret = INVALID_ARGUMENT /\ resolved = NoAlgo)

C1_Witness ==
    /\ pc = "returned"
    /\ op = "compress"
    /\ algo = 255
    /\ out_null
    /\ ~in_null
    /\ ret = INVALID_ARGUMENT

\* C2: the tags 1..9 resolve to nine pairwise distinct algorithms, each tag to the
\* algorithm whose discriminant it is; with any other tag and no null pointer
\* compress_native and decompress_native return AlgoNotFound, and
\* estimate_max_output_size_native returns 0, for every level and input length.
C2_UnknownTag ==
    /\ \A t \in 1..9 : TryFrom(t).ok /\ Discriminant(TryFrom(t).algo) = t
    /\ Cardinality({TryFrom(t).algo : t \in 1..9}) = 9
    /\ \A t \in U8 \ (1..9) : ~TryFrom(t).ok
    /\ (pc = "returned" /\ ~faulted /\ algo \notin 1..9 /\ Gateway /\ ~AnyNull)
          => ret = ALGO_NOT_FOUND
    /\ (pc = "returned" /\ ~faulted /\ algo \notin 1..9 /\ op = "estimate")
          => ret = 0

C2_Witness ==
    /\ pc = "returned"
    /\ op = "decompress"
    /\ algo = 10
    /\ ~AnyNull
    /\ in_len = 2
    /\ ret = ALGO_NOT_FOUND

\* C3: no panic leaves an entry point: a call in which a panic was raised returns
\* FaultContained from compress_native and decompress_native and 0 from
\* estimate_max_output_size_native.
C3_FaultContained ==
    /\ ~(pc = "escaped" /\ op \in {"compress", "decompress", "estimate"})
    /\ (pc = "returned" /\ faulted /\ Gateway) => ret = PANIC_CAUGHT
    /\ (pc = "returned" /\ faulted /\ op = "estimate") => ret = 0

\* C4: decompress of exactly the bytes a successful compress wrote, by the same
\* algorithm, into a region of at least the input's length succeeds, reports the
\* input's length and leaves the input in the region; for every algorithm, level and
\* input, the empty one included, and for both prefixes of the LZF adapter.
C4_RoundTrip ==
    (/\ pc = "returned"
     /\ op = "decompress"
     /\ ~faulted
     /\ link.src # NoAlgo
     /\ resolved = link.src
     /\ out_cap >= Len(link.plain))
        => (/\ ret = SUCCESS
            /\ out_len = Len(link.plain)
            /\ Prefix(out, Len(link.plain)) = link.plain)

C4_Witness ==
    /\ pc = "returned"
    /\ op = "decompress"
    /\ resolved = "Lzf"
    /\ link.src = "Lzf"
    /\ link.plain = <<1, 1, 1>>
    /\ input = <<1, 3, 1>>
    /\ out_cap = 3
    /\ ret = SUCCESS

C6_TooSmallIsCapacityError ==
    (/\ pc = "returned"
     /\ op = "compress"
     /\ ~faulted
     /\ resolved # NoAlgo
     /\ out_cap < CompressedSize(resolved, level, input))
        => ret = BUFFER_TOO_SMALL

\* C7: the needed of a BufferTooSmall is greater than the capacity of the output
\* region it was raised for, and it is the value *out_len holds when the entry point
\* returns -1.
C7_NeededExceedsCapacity ==
    /\ (pc \in {"report", "log", "returned"} /\ ~result.ok
           /\ result.err.kind = "BufferTooSmall")
          => (result.err.needed > out_cap /\ result.err.needed > 0)
    /\ (pc = "returned" /\ Gateway /\ ret = BUFFER_TOO_SMALL)
          => (~result.ok /\ out_len = result.err.needed /\ out_len > out_cap)

C7_Witness ==
    /\ pc = "returned"
    /\ op = "decompress"
    /\ resolved = "Bzip2"
    /\ ret = BUFFER_TOO_SMALL
    /\ out_cap = 2
    /\ out_len = 3

\* C8: when compress_native or decompress_native returns Success, *out_len is the
\* number of bytes the adapter wrote, it is at most out_cap, and the output region
\* is written in exactly its first *out_len bytes.
C8_SuccessLength ==
    (pc = "returned" /\ Gateway /\ ret = SUCCESS)
        => (/\ result.ok
            /\ out_len = result.n
            /\ out_len >= 0
            /\ out_len <= out_cap
            /\ \A i \in 1..out_cap : (out[i] = Poison) <=> (i > out_len))

C8_Witness ==
    /\ pc = "returned"
    /\ op = "compress"
    /\ resolved = "Gzip"
    /\ ret = SUCCESS
    /\ out_len = 4
    /\ out_cap > out_len

\* C9: a call repeated with an output region of the capacity the BufferTooSmall of
\* the first call asked for does not return BufferTooSmall.
C9_OneRetrySuffices ==
    (pc = "returned" /\ Gateway /\ link.kind = "retry" /\ ~faulted)
        => ret # BUFFER_TOO_SMALL

\* C10: clamp_level applied to its own result gives that result, for every algorithm
\* and level.
C10_ClampIdempotent ==
    (pc = "clamped") => (norm[2] = norm[1] /\ norm[1] = clamp_level(resolved, level))

C10_Witness ==
    /\ pc = "clamped"
    /\ resolved = "Zstd"
    /\ level = I32_MAX
    /\ norm = <<22, 22>>

\* the documented table of levels: default and range of each ranged algorithm
FixedLevelAlgos == {"Lz4", "Snappy", "Lzf"}
RangedAlgos == Algos \ FixedLevelAlgos
DocumentedDefault(a) == IF a = "Zstd" THEN 3 ELSE 6
DocumentedMin(a) == 1
DocumentedMax(a) == IF a = "Zstd" THEN 22 ELSE IF a = "Brotli" THEN 11 ELSE 9

\* C11: clamp_level follows the documented table: LZ4, Snappy and LZF yield one fixed
\* level for every request; a ranged algorithm yields its default for a request <= 0,
\* the request itself inside its range and the maximum above it.  The level a ranged
\* compress adapter hands to its codec is within the range and is the same as u32.
C11_ClampTable ==
    /\ (pc = "clamped" /\ resolved \in FixedLevelAlgos) => norm[1] = 0
    /\ (pc = "clamped" /\ resolved \in RangedAlgos) =>
          /\ (level <= 0) => norm[1] = DocumentedDefault(resolved)
          /\ (level >= DocumentedMin(resolved) /\ level <= DocumentedMax(resolved))
                => norm[1] = level
          /\ (level > DocumentedMax(resolved)) => norm[1] = DocumentedMax(resolved)
    /\ (op = "compress" /\ resolved \in RangedAlgos /\ result # NoResult) =>
          /\ clamp_level(resolved, level) \in
                DocumentedMin(resolved)..DocumentedMax(resolved)
          /\ AsU32(clamp_level(resolved, level)) = clamp_level(resolved, level)
          /\ (out_cap >= 2) => out[2] = clamp_level(resolved, level)

C11_Witness ==
    /\ pc = "clamped"
    /\ resolved = "Brotli"
    /\ level = 10
    /\ norm[1] = 10

\* the kind of outcome of a returned call of compress_native / decompress_native
Outcome ==
    IF faulted THEN "FaultContained"
    ELSE IF AnyNull THEN "InvalidArgument"
    ELSE IF resolved = NoAlgo THEN "AlgoNotFound"
    ELSE IF result.ok THEN "Success"
    ELSE result.err.kind

\* the documented code of each kind of outcome
DocumentedCode(kind) ==
    CASE kind = "Success" -> 0
      [] kind = "BufferTooSmall" -> -1
      [] kind = "AlgoNotFound" -> -2
      [] kind = "InvalidArgument" -> -3
      [] kind = "Internal" -> -50
      [] kind = "FaultContained" -> -99

OutcomeKinds ==
    {"Success", "BufferTooSmall", "AlgoNotFound", "InvalidArgument", "Internal",
     "FaultContained"}

\* C12: every call of compress_native or decompress_native returns one of the six
\* codes 0, -1, -2, -3, -50, -99; the code returned is the documented code of the
\* kind of outcome of the call, and no two kinds of outcome share a code.
C12_SixCodes ==
    /\ Cardinality({SUCCESS, BUFFER_TOO_SMALL, ALGO_NOT_FOUND, INVALID_ARGUMENT,
                    INTERNAL_ERROR, PANIC_CAUGHT}) = 6
    /\ (pc = "returned" /\ Gateway) =>
          /\ ret \in {0, -1, -2, -3, -50, -99}
          /\ Outcome \in OutcomeKinds
          /\ ret = DocumentedCode(Outcome)
          /\ \A k \in OutcomeKinds : (ret = DocumentedCode(k)) <=> (k = Outcome)

C12_Witness ==
    /\ pc = "returned"
    /\ op = "decompress"
    /\ ~faulted
    /\ resolved = "Lzf"
    /\ ~result.ok
    /\ result.err.kind = "Internal"
    /\ ret = INTERNAL_ERROR

\* C13: decompress of a structurally invalid or corrupt input returns Internal, not a
\* capacity error or a success: of a stream that is valid compressed output with one
\* byte altered or its last byte missing, of any input the decoder of the algorithm rejects, and for LZF of
\* an empty input or a first byte other than 0x00 / 0x01 at every output capacity.
C13_CorruptIsInternal ==
    (pc = "returned" /\ op = "decompress" /\ ~faulted /\ ~AnyNull /\ resolved # NoAlgo)
        => (/\ (link.kind = "corrupted") => ret = INTERNAL_ERROR
            /\ (resolved # "Lzf" /\ ~Decode(resolved, input).ok) => ret = INTERNAL_ERROR
            /\ (resolved = "Lzf" /\ (input = <<>> \/ input[1] \notin {0, 1}))
                  => ret = INTERNAL_ERROR)

\* the steps of a call of compress_native / decompress_native
CallSteps == {"entry", "resolve", "adapter", "read", "report", "log"}

\* the bytes of the caller's memory after the output region
GuardBytes == SubSeq(out, out_cap + 1, Len(out))

\* what every state of a call satisfies
FrameState ==
    (Gateway /\ pc \in CallSteps \cup {"returned"}) =>
        /\ ~out_null => GuardBytes = Fresh(GuardLen)
        /\ (out_len # Unwritten) =>
              (result # NoResult /\ (result.ok \/ result.err.kind = "BufferTooSmall"))
        /\ (pc = "returned" /\ ~faulted /\ ret \notin {SUCCESS, BUFFER_TOO_SMALL})
              => out_len = Unwritten
        /\ (pc = "returned" /\ ret \in {INVALID_ARGUMENT, ALGO_NOT_FOUND}) =>
              /\ out_len = Unwritten
              /\ ~out_null => out = Fresh(out_cap + GuardLen)

\* C14: a call of compress_native or decompress_native writes the output region only
\* at offsets below out_cap, writes *out_len only with a success or a BufferTooSmall
\* of the adapter, and never writes the input region; a call that returns
\* InvalidArgument or AlgoNotFound has written neither the output region nor *out_len.
C14_WritesWithinFrame ==
    [][/\ FrameState'
       /\ (Gateway /\ pc \in CallSteps) =>
             /\ input' = input
             /\ (out' # out) =>
                   \E i \in 1..out_cap : out'[i] # out[i]
             /\ Len(out') = Len(out)]_vars

C14_Witness ==
    /\ pc = "returned"
    /\ op = "compress"
    /\ resolved = "Gzip"
    /\ ret = INTERNAL_ERROR
    /\ out_cap = 2
    /\ Len(input) = 1
    /\ out[1] = Magic("Gzip")
    /\ out[2] = 6
    /\ out[3] = Poison
    /\ out_len = Unwritten

\* in_len and the value returned of a call of estimate_max_output_size_native, as usize
InLenUsize == IF link.kind = "large" THEN in_len ELSE Usize(in_len)
RetUsize == IF link.kind = "large" THEN ret ELSE Usize(ret)

\* C15: for every algorithm and every in_len of usize the estimate is at least in_len:
\* the closed forms neither wrap around nor fault, and
\* estimate_max_output_size_native does not return 0 for a known algorithm.
C15_EstimateNeverUnder ==
    (op = "estimate" /\ TryFrom(algo).ok /\ pc = "returned")
        => (/\ ~estimate_max_output_size_usize(TryFrom(algo).algo, level,
                                               InLenUsize).overflow
            /\ ~faulted =>
                  (/\ ~LessUsize(RetUsize, InLenUsize)
                   /\ RetUsize # Usize(0)))

\* what read_to_buffer keeps true of its counters
ReadBound ==
    (op = "decompress" /\ resolved \in Streaming /\ pc \in {"read", "report", "log", "returned"})
        => (total <= out_cap /\ reads <= out_cap + 1)

\* C16: the loop of read_to_buffer terminates: an iteration that does not return adds
\* at least one byte to total, so a read of 0 bytes returns; with total at the
\* capacity the one probe read returns; the loop makes at most out_cap + 1 reads and
\* total never exceeds out_cap.
C16_ReadTerminates ==
    [][/\ ReadBound'
       /\ (pc = "read" /\ pc' = "read") => (total' > total /\ reads' = reads + 1)
       /\ (pc = "read" /\ total >= out_cap) => pc' # "read"
       /\ (pc = "read" /\ pc' = "report") => (total' = total /\ reads' = reads + 1)]_vars

C16_Witness ==
    /\ pc = "report"
    /\ op = "decompress"
    /\ resolved = "Deflate"
    /\ out_cap = 2
    /\ total = 2
    /\ reads = 3
    /\ result.ok

\* C17: decompress of valid compressed output, by the algorithm that wrote it, into a
\* region shorter than the decompressed data does not return Success: it returns
\* BufferTooSmall or Internal; into a region of exactly the decompressed length it
\* returns Success with that length and the data.
C17_NoTruncatedSuccess ==
    (/\ pc = "returned"
     /\ op = "decompress"
     /\ ~faulted
     /\ link.src # NoAlgo
     /\ resolved = link.src)
        => (/\ (out_cap < Len(link.plain)) => ret \in {BUFFER_TOO_SMALL, INTERNAL_ERROR}
            /\ (out_cap = Len(link.plain)) =>
                  (/\ ret = SUCCESS
                   /\ out_len = Len(link.plain)
                   /\ Prefix(out, out_len) = link.plain))

C17_Witness ==
    /\ pc = "returned"
    /\ op = "decompress"
    /\ link.kind = "roundtrip"
    /\ link.src = "Bzip2"
    /\ resolved = "Bzip2"
    /\ Len(link.plain) = 3
    /\ out_cap = 2
    /\ total = 2
    /\ ret = BUFFER_TOO_SMALL

====
